---- MODULE Spec2Model ----
(***************************************************************************)
(* Model of operators/mouse_cut.py: the modal operator                     *)
(* POWER_SEQUENCER_OT_mouse_cut (invoke / modal / trim_apply / cut / trim  *)
(* / draw_start / draw_stop) and its strip classifier                      *)
(* (find_strips_to_cut / find_strips_to_trim).                             *)
(*                                                                         *)
(* The host (sequence editor) is modelled by: the strips of the timeline,  *)
(* the scene's time cursor, the registry of draw handlers of the space,    *)
(* the view2d mapping from region pixels to (frame, channel), and the log  *)
(* of host operators called by the running session.                        *)
(***************************************************************************)
EXTENDS Integers, FiniteSets, Sequences, TLC

(* ------------------------------ bounds -------------------------------- *)
\* Largest mouse_region_x / mouse_region_y an event carries.
MaxMouseX == 5
MaxMouseY == 2
\* view2d: pixels per frame / per channel, and the frame at region x = 0.
PxPerFrame == 2
PxPerChannel == 1
ViewFrameOffset == 8
\* Capacity of the host's draw-handler registry (handles are 1..MaxHandlers).
MaxHandlers == 1

(* -------------------------- program constants ------------------------- *)
TABLET_TRIM_DISTANCE_THRESHOLD == 6

None == 0

Event(type, value, x, y, tablet) ==
    [type |-> type, value |-> value, mouse_region_x |-> x, mouse_region_y |-> y,
     is_tablet |-> tablet]

\* The events the host hands to the operator.  Each kind of event varies in
\* the fields the handler reads for it: invoke reads the mouse position; modal
\* reads the value of a key, the position of a mouse move, and the x position
\* and the tablet flag of a mouse button.  "A" stands for any unbound key.
InvokeEvents ==
    {Event("T", "PRESS", x, y, FALSE) : x \in 0..MaxMouseX, y \in 0..MaxMouseY}
KeyEvents ==
    {Event(k, v, 0, 0, FALSE) : k \in {"ESC", "RET", "T", "A"}, v \in {"PRESS", "RELEASE"}}
MoveEvents ==
    {Event("MOUSEMOVE", "NOTHING", x, 0, FALSE) : x \in 0..MaxMouseX}
ButtonEvents ==
    {Event("LEFTMOUSE", v, x, 0, tablet) :
        v \in {"PRESS", "RELEASE"}, x \in {0, MaxMouseX}, tablet \in BOOLEAN}
ModalEvents == KeyEvents \cup MoveEvents \cup ButtonEvents

SelectModes == {"cursor", "contextual"}
Running == {"RUNNING_MODAL", "PASS_THROUGH"}

Abs(n) == IF n < 0 THEN -n ELSE n
Min(a, b) == IF a <= b THEN a ELSE b
Max(a, b) == IF a >= b THEN a ELSE b

\* Python's round() of the float num/den (den > 0): nearest integer, ties to even.
round(num, den) ==
    LET q == num \div den
        r == num % den
    IN  IF 2 * r < den THEN q
        ELSE IF 2 * r > den THEN q + 1
        ELSE IF q % 2 = 0 THEN q ELSE q + 1

\* view2d.region_to_view(x, y), as two fractions <<num, den>>.
region_to_view(x, y) ==
    << <<x + ViewFrameOffset * PxPerFrame, PxPerFrame>>, <<y, PxPerChannel>> >>

get_frame_and_channel(event) ==
    LET v == region_to_view(event.mouse_region_x, event.mouse_region_y)
    IN  << round(v[1][1], v[1][2]), round(v[2][1], v[2][2]) >>

\* Frames and channels the view shows; the strips of the model live there.
Frames == ViewFrameOffset .. round(MaxMouseX + ViewFrameOffset * PxPerFrame, PxPerFrame)
Channels == 1 .. round(MaxMouseY, PxPerChannel)

StripIds == {1, 2}
StripRecords == {r \in [channel : Channels, frame_final_start : Frames,
                        frame_final_end : Frames, lock : BOOLEAN, select : BOOLEAN] :
                    r.frame_final_start < r.frame_final_end}
\* Any two strips, none of them selected; strips of one channel do not overlap.
Timelines ==
    {tl \in [StripIds -> {r \in StripRecords : ~r.select}] :
        \A s, u \in StripIds :
            (s # u /\ tl[s].channel = tl[u].channel) =>
                \/ tl[s].frame_final_end <= tl[u].frame_final_start
                \/ tl[u].frame_final_end <= tl[s].frame_final_start}
\* Timelines with the first strip on the lowest channel and the second strip,
\* unlocked, on the highest one.
LayeredTimelines == {tl \in Timelines : /\ tl[1].channel = 1
                                        /\ tl[2].channel = round(MaxMouseY, PxPerChannel)
                                        /\ ~tl[2].lock}

\* The timeline whose strips are unlocked and span every frame.
CoveringTimelines == {tl \in LayeredTimelines :
                         \A s \in StripIds : /\ ~tl[s].lock
                                             /\ \A f \in Frames :
                                                   /\ tl[s].frame_final_start <= f
                                                   /\ f <= tl[s].frame_final_end}

VARIABLES
    strips,                \* context.sequences: strip id -> Strip
    frame_current,         \* context.scene.frame_current
    is_animation_playing,  \* context.screen.is_animation_playing
    handlers,              \* SpaceSequenceEditor's registered draw handles
    draw_args,             \* arguments of the latest draw_handler_add
    select_mode, select_linked, remove_gaps,       \* operator properties
    trim_start, channel_start, trim_end, is_trimming, draw_handler,
    status,                \* what invoke / modal returned last ("IDLE" before)
    event_type,            \* type of the event handled last
    calls,                 \* host operators called by the current session
    session_handlers       \* handles registered by the current session

vars == <<strips, frame_current, is_animation_playing, handlers, draw_args,
          select_mode, select_linked, remove_gaps,
          trim_start, channel_start, trim_end, is_trimming, draw_handler,
          status, event_type, calls, session_handlers>>

host_vars == <<strips, frame_current, is_animation_playing, handlers, draw_args>>
prop_vars == <<select_mode, select_linked, remove_gaps>>
self_vars == <<trim_start, channel_start, trim_end, is_trimming, draw_handler>>


(* --------------------------- strip classifier -------------------------- *)
\* utils/find_strips_mouse.py: the unlocked strips under the point
\* (frame, channel); with select_linked also the unlocked strips linked in
\* time to one of them (same frame bounds).
find_strips_mouse(frame, channel, linked) ==
    LET under == {s \in StripIds :
                    /\ ~strips[s].lock
                    /\ strips[s].channel = channel
                    /\ strips[s].frame_final_start <= frame
                    /\ frame <= strips[s].frame_final_end}
        links == {s \in StripIds :
                    /\ ~strips[s].lock
                    /\ \E u \in under :
                          /\ strips[u].frame_final_start = strips[s].frame_final_start
                          /\ strips[u].frame_final_end = strips[s].frame_final_end}
    IN  IF linked THEN under \cup links ELSE under

\* find_strips_to_cut without its test of s.lock.
find_strips_to_cut_locked(ts, channel, mode, linked) ==
    LET overlapping_strips ==
            IF mode = "contextual" THEN find_strips_mouse(ts, channel, linked) ELSE {}
        scanned ==
            IF mode = "cursor" \/ (overlapping_strips = {} /\ mode = "contextual")
            THEN {s \in StripIds :
                    /\ strips[s].frame_final_start <= ts
                    /\ ts <= strips[s].frame_final_end}
            ELSE {}
    IN  overlapping_strips \cup scanned

\* find_strips_to_cut that scans the channel of the mouse only.
find_strips_to_cut_channel(ts, channel, mode, linked) ==
    LET overlapping_strips ==
            IF mode = "contextual" THEN find_strips_mouse(ts, channel, linked) ELSE {}
        scanned ==
            IF mode = "cursor" \/ (overlapping_strips = {} /\ mode = "contextual")
            THEN {s \in StripIds :
                    /\ ~strips[s].lock
                    /\ strips[s].channel = channel
                    /\ strips[s].frame_final_start <= ts
                    /\ ts <= strips[s].frame_final_end}
            ELSE {}
    IN  overlapping_strips \cup scanned

\* Returns the set of strips to cut.
find_strips_to_cut(ts, channel, mode, linked) ==
    LET overlapping_strips ==
            IF mode = "contextual" THEN find_strips_mouse(ts, channel, linked) ELSE {}
        scanned ==
            IF mode = "cursor" \/ (overlapping_strips = {} /\ mode = "contextual")
            THEN {s \in StripIds :
                    /\ ~strips[s].lock
                    /\ strips[s].frame_final_start <= ts
                    /\ ts <= strips[s].frame_final_end}
            ELSE {}
    IN  overlapping_strips \cup scanned

\* find_strips_to_trim with a strict comparison of the strip's start.
find_strips_to_trim_strict(ts, te, channel, mode, linked) ==
    LET lo == Min(ts, te)
        hi == Max(ts, te)
        under_mouse == find_strips_mouse(ts, channel, linked)
        inside(s) == lo < strips[s].frame_final_start /\ hi >= strips[s].frame_final_end
        onedge(s) == \/ strips[s].frame_final_start <= lo /\ lo <= strips[s].frame_final_end
                     \/ strips[s].frame_final_start <= hi /\ hi <= strips[s].frame_final_end
    IN  IF mode = "contextual"
        THEN [to_trim |-> under_mouse, to_delete |-> {}]
        ELSE IF mode = "cursor"
        THEN [to_trim   |-> {s \in StripIds : ~strips[s].lock /\ ~inside(s) /\ onedge(s)},
              to_delete |-> {s \in StripIds : ~strips[s].lock /\ inside(s)}]
        ELSE [to_trim |-> {}, to_delete |-> {}]

\* find_strips_to_trim that tests the first end of the range only.
find_strips_to_trim_one_edge(ts, te, channel, mode, linked) ==
    LET lo == Min(ts, te)
        hi == Max(ts, te)
        under_mouse == find_strips_mouse(ts, channel, linked)
        inside(s) == lo <= strips[s].frame_final_start /\ hi >= strips[s].frame_final_end
        onedge(s) == strips[s].frame_final_start <= lo /\ lo <= strips[s].frame_final_end
    IN  IF mode = "contextual"
        THEN [to_trim |-> under_mouse, to_delete |-> {}]
        ELSE IF mode = "cursor"
        THEN [to_trim   |-> {s \in StripIds : ~strips[s].lock /\ ~inside(s) /\ onedge(s)},
              to_delete |-> {s \in StripIds : ~strips[s].lock /\ inside(s)}]
        ELSE [to_trim |-> {}, to_delete |-> {}]

\* find_strips_to_trim without min and max of the range.
find_strips_to_trim_unordered(ts, te, channel, mode, linked) ==
    LET lo == ts
        hi == te
        under_mouse == find_strips_mouse(ts, channel, linked)
        inside(s) == lo <= strips[s].frame_final_start /\ hi >= strips[s].frame_final_end
        onedge(s) == \/ strips[s].frame_final_start <= lo /\ lo <= strips[s].frame_final_end
                     \/ strips[s].frame_final_start <= hi /\ hi <= strips[s].frame_final_end
    IN  IF mode = "contextual"
        THEN [to_trim |-> under_mouse, to_delete |-> {}]
        ELSE IF mode = "cursor"
        THEN [to_trim   |-> {s \in StripIds : ~strips[s].lock /\ ~inside(s) /\ onedge(s)},
              to_delete |-> {s \in StripIds : ~strips[s].lock /\ inside(s)}]
        ELSE [to_trim |-> {}, to_delete |-> {}]

\* Returns [to_trim, to_delete].  The elif of the source is reached only when
\* select_mode # "contextual"; its first disjunct (select_mode = "cursor")
\* then decides, so the second one (initially_clicked_strips) is never read.
find_strips_to_trim(ts, te, channel, mode, linked) ==
    LET lo == Min(ts, te)
        hi == Max(ts, te)
        under_mouse == find_strips_mouse(ts, channel, linked)
        inside(s) == lo <= strips[s].frame_final_start /\ hi >= strips[s].frame_final_end
        onedge(s) == \/ strips[s].frame_final_start <= lo /\ lo <= strips[s].frame_final_end
                     \/ strips[s].frame_final_start <= hi /\ hi <= strips[s].frame_final_end
    IN  IF mode = "contextual"
        THEN [to_trim |-> under_mouse, to_delete |-> {}]
        ELSE IF mode = "cursor"
        THEN [to_trim   |-> {s \in StripIds : ~strips[s].lock /\ ~inside(s) /\ onedge(s)},
              to_delete |-> {s \in StripIds : ~strips[s].lock /\ inside(s)}]
        ELSE [to_trim |-> {}, to_delete |-> {}]

(* ------------------------------ operator ------------------------------- *)
Call(op, args) == [op |-> op, args |-> args]
\* The calls of op in the log cs.
CallsOf(cs, op) == {i \in DOMAIN cs : cs[i].op = op}
Called(op) == CallsOf(calls, op) # {}

\* A handle the registry does not hold yet.
NewHandle(regs) == CHOOSE h \in 1..MaxHandlers :
                      h \notin regs /\ \A k \in 1..(h - 1) : k \in regs

\* update_time_cursor: the value given to trim_end and scene.frame_current.
update_time_cursor(event) == get_frame_and_channel(event)[1]

\* trim_initialize that sets the frames and leaves channel_start as it was.
trim_initialize_frame_only(event) ==
    [trim_start    |-> get_frame_and_channel(event)[1],
     channel_start |-> channel_start,
     trim_end      |-> get_frame_and_channel(event)[1],
     is_trimming   |-> TRUE]

\* trim_initialize: the session fields it sets.
trim_initialize(event) ==
    [trim_start    |-> get_frame_and_channel(event)[1],
     channel_start |-> get_frame_and_channel(event)[2],
     trim_end      |-> get_frame_and_channel(event)[1],
     is_trimming   |-> TRUE]

\* draw_start that registers the handler and does not keep its handle.
draw_start_handle_dropped(event, ts, te, channel, mode, linked, gaps, regs) ==
    LET found == find_strips_to_trim(ts, te, channel, mode, linked)
        h == NewHandle(regs)
    IN  [draw_handler |-> None,
         handlers     |-> regs \cup {h},
         draw_args    |-> [frame_start   |-> ts,
                           frame_end     |-> te,
                           target_strips |-> found.to_trim \cup found.to_delete,
                           draw_arrows   |-> gaps]]

\* draw_start: registers a new draw handler with the host; regs is the
\* registry before the call.  Of the draw arguments, mouse_y (the height at
\* which the line is drawn) is left out.
draw_start(event, ts, te, channel, mode, linked, gaps, regs) ==
    LET found == find_strips_to_trim(ts, te, channel, mode, linked)
        h == NewHandle(regs)
    IN  [draw_handler |-> h,
         handlers     |-> regs \cup {h},
         draw_args    |-> [frame_start   |-> ts,
                           frame_end     |-> te,
                           target_strips |-> found.to_trim \cup found.to_delete,
                           draw_arrows   |-> gaps]]

\* draw_stop: the registry after the call.
draw_stop(h, regs) == IF h # None THEN regs \ {h} ELSE regs

\* The host's bpy.ops.sequencer.select_all on the strips st.
select_all(st, action) ==
    [s \in DOMAIN st |-> [st[s] EXCEPT !.select = IF action = "DESELECT" THEN FALSE ELSE TRUE]]

\* cut that also moves the start of the strips it selects to trim_start.
cut_moving_start ==
    LET to_select == find_strips_to_cut(trim_start, channel_start, select_mode, select_linked)
        deselected == select_all(strips, "DESELECT")
    IN  [strips        |-> [s \in StripIds |->
                              IF s \in to_select
                              THEN [deselected[s] EXCEPT !.select = TRUE,
                                                         !.frame_final_start = trim_start]
                              ELSE deselected[s]],
         frame_current |-> frame_current,
         calls         |-> <<Call("sequencer.select_all", <<"DESELECT">>),
                             Call("sequencer.cut", <<trim_start, "SOFT", "BOTH">>)>>]

\* cut that leaves the time cursor at trim_start.
cut_cursor_at_start ==
    LET to_select == find_strips_to_cut(trim_start, channel_start, select_mode, select_linked)
        deselected == select_all(strips, "DESELECT")
    IN  [strips        |-> [s \in StripIds |->
                              IF s \in to_select
                              THEN [deselected[s] EXCEPT !.select = TRUE]
                              ELSE deselected[s]],
         frame_current |-> trim_start,
         calls         |-> <<Call("sequencer.select_all", <<"DESELECT">>),
                             Call("sequencer.cut", <<trim_start, "SOFT", "BOTH">>)>>]

\* cut: deselects all through the host, sets select on the strips to cut and
\* calls the host's cut at trim_start; the time cursor is put back afterwards.
cut ==
    LET to_select == find_strips_to_cut(trim_start, channel_start, select_mode, select_linked)
        deselected == select_all(strips, "DESELECT")
    IN  [strips        |-> [s \in StripIds |->
                              IF s \in to_select
                              THEN [deselected[s] EXCEPT !.select = TRUE]
                              ELSE deselected[s]],
         frame_current |-> frame_current,
         calls         |-> <<Call("sequencer.select_all", <<"DESELECT">>),
                             Call("sequencer.cut", <<trim_start, "SOFT", "BOTH">>)>>]

\* trim: hands the classified strips to trim_strips, then removes gaps.
trim ==
    LET found == find_strips_to_trim(trim_start, trim_end, channel_start,
                                     select_mode, select_linked)
        trimming == Call("trim_strips", <<trim_start, trim_end, select_mode,
                                          found.to_trim, found.to_delete>>)
    IN  IF remove_gaps /\ select_mode = "cursor"
        THEN [strips        |-> strips,
              frame_current |-> Min(trim_start, trim_end),
              calls         |-> <<trimming, Call("power_sequencer.remove_gaps", <<>>)>>]
        ELSE [strips        |-> strips,
              frame_current |-> trim_end,
              calls         |-> <<trimming>>]

\* is_cutting with the or taken before the and.
is_cutting_grouped(event) ==
    LET start_x == region_to_view(event.mouse_region_x, event.mouse_region_y)[1]
        near == Abs(event.mouse_region_x * start_x[2] - start_x[1])
                    <= TABLET_TRIM_DISTANCE_THRESHOLD * start_x[2]
    IN  (trim_start = trim_end \/ event.is_tablet) /\ near

\* trim_apply: distance_to_start = abs(mouse_region_x - start_x), with
\* start_x the view x of the event's own position.
is_cutting(event) ==
    LET start_x == region_to_view(event.mouse_region_x, event.mouse_region_y)[1]
        \* distance_to_start <= THRESHOLD, times the denominator of start_x
        near == Abs(event.mouse_region_x * start_x[2] - start_x[1])
                    <= TABLET_TRIM_DISTANCE_THRESHOLD * start_x[2]
    IN  trim_start = trim_end \/ (event.is_tablet /\ near)

trim_apply(event) == IF is_cutting(event) THEN cut ELSE trim


(* ----------------------------- initial state --------------------------- *)
\* Class attributes of the operator and the defaults of its properties, over
\* the timeline tl; the animation may be playing.
InitOver(tl) ==
    /\ strips = tl
    /\ frame_current = ViewFrameOffset
    /\ is_animation_playing \in BOOLEAN
    /\ handlers = {}
    /\ draw_args = [frame_start |-> -1, frame_end |-> -1,
                    target_strips |-> {}, draw_arrows |-> FALSE]
    /\ select_mode = "contextual"
    /\ select_linked = FALSE
    /\ remove_gaps = TRUE
    /\ trim_start = 0
    /\ channel_start = 0
    /\ trim_end = 0
    /\ is_trimming = FALSE
    /\ draw_handler = None
    /\ status = "IDLE"
    /\ event_type = "NONE"
    /\ calls = <<>>
    /\ session_handlers = {}

Init == \E tl \in LayeredTimelines : InitOver(tl)

\* The classifier is checked over every timeline.
InitClassifier == \E tl \in Timelines : InitOver(tl)

(* -------------------------------- actions ------------------------------ *)
\* The value a method returns is bound once, as v in \E v \in {method(...)}.
\* invoke, called by the host with the properties of the shortcut.
invoke(event, mode, linked, gaps) ==
    /\ status \notin Running
    /\ Cardinality(handlers) < MaxHandlers
    /\ select_mode' = mode
    /\ select_linked' = linked
    /\ remove_gaps' = gaps
    /\ is_animation_playing' = FALSE
    /\ calls' = IF is_animation_playing
                THEN <<Call("screen.animation_cancel", <<FALSE>>)>>
                ELSE <<>>
    /\ frame_current' = update_time_cursor(event)
    /\ \E init \in {trim_initialize(event)} :
           /\ trim_start' = init.trim_start
           /\ channel_start' = init.channel_start
           /\ trim_end' = init.trim_end
           /\ is_trimming' = init.is_trimming
           /\ \E drawn \in {draw_start(event, init.trim_start, init.trim_end,
                                       init.channel_start, mode, linked, gaps, handlers)} :
                  /\ draw_handler' = drawn.draw_handler
                  /\ handlers' = drawn.handlers
                  /\ draw_args' = drawn.draw_args
                  /\ session_handlers' = {drawn.draw_handler}
    /\ status' = "RUNNING_MODAL"
    /\ event_type' = event.type
    /\ UNCHANGED strips

\* modal's ESC branch with the trim_apply and draw_stop of the LEFTMOUSE branch.
modal_ESC_applies(event) ==
    /\ status \in Running
    /\ event.type = "ESC"
    /\ \E applied \in {trim_apply(event)} :
           /\ strips' = applied.strips
           /\ frame_current' = applied.frame_current
           /\ calls' = calls \o applied.calls
    /\ is_trimming' = FALSE
    /\ handlers' = draw_stop(draw_handler, handlers)
    /\ status' = "CANCELLED"
    /\ event_type' = event.type
    /\ UNCHANGED <<is_animation_playing, draw_args, prop_vars,
                   trim_start, channel_start, trim_end, draw_handler, session_handlers>>

\* modal, event.type in {'ESC'}.
modal_ESC(event) ==
    /\ status \in Running
    /\ event.type = "ESC"
    /\ status' = "CANCELLED"
    /\ event_type' = event.type
    /\ UNCHANGED <<host_vars, prop_vars, self_vars, calls, session_handlers>>

\* modal, event.type == 'LEFTMOUSE': trim_apply, draw_stop.
modal_LEFTMOUSE(event) ==
    /\ status \in Running
    /\ event.type = "LEFTMOUSE"
    /\ \E applied \in {trim_apply(event)} :
           /\ strips' = applied.strips
           /\ frame_current' = applied.frame_current
           /\ calls' = calls \o applied.calls
    /\ is_trimming' = FALSE
    /\ handlers' = draw_stop(draw_handler, handlers)
    /\ status' = "FINISHED"
    /\ event_type' = event.type
    /\ UNCHANGED <<is_animation_playing, draw_args, prop_vars,
                   trim_start, channel_start, trim_end, draw_handler, session_handlers>>

\* modal's MOUSEMOVE branch moving the start of the range with the cursor.
modal_MOUSEMOVE_moving_start(event) ==
    /\ status \in Running
    /\ event.type = "MOUSEMOVE"
    /\ \E stopped \in {draw_stop(draw_handler, handlers)},
          cursor \in {update_time_cursor(event)} :
       \E drawn \in {draw_start(event, cursor, cursor, channel_start,
                               select_mode, select_linked, remove_gaps, stopped)} :
           /\ Cardinality(stopped) < MaxHandlers
           /\ frame_current' = cursor
           /\ trim_start' = cursor
           /\ trim_end' = cursor
           /\ draw_handler' = drawn.draw_handler
           /\ handlers' = drawn.handlers
           /\ draw_args' = drawn.draw_args
           /\ session_handlers' = session_handlers \cup {drawn.draw_handler}
    /\ status' = "PASS_THROUGH"
    /\ event_type' = event.type
    /\ UNCHANGED <<strips, is_animation_playing, prop_vars,
                   channel_start, is_trimming, calls>>

\* modal, event.type == 'MOUSEMOVE': draw_stop, update_time_cursor, draw_start.
modal_MOUSEMOVE(event) ==
    /\ status \in Running
    /\ event.type = "MOUSEMOVE"
    /\ \E stopped \in {draw_stop(draw_handler, handlers)},
          cursor \in {update_time_cursor(event)} :
       \E drawn \in {draw_start(event, trim_start, cursor, channel_start,
                               select_mode, select_linked, remove_gaps, stopped)} :
           /\ Cardinality(stopped) < MaxHandlers
           /\ frame_current' = cursor
           /\ trim_end' = cursor
           /\ draw_handler' = drawn.draw_handler
           /\ handlers' = drawn.handlers
           /\ draw_args' = drawn.draw_args
           /\ session_handlers' = session_handlers \cup {drawn.draw_handler}
    /\ status' = "PASS_THROUGH"
    /\ event_type' = event.type
    /\ UNCHANGED <<strips, is_animation_playing, prop_vars,
                   trim_start, channel_start, is_trimming, calls>>

\* modal's RET / T branch with the trim_apply of the LEFTMOUSE branch.
modal_RET_T_applies(event) ==
    /\ status \in Running
    /\ event.type \in {"RET", "T"}
    /\ event.value = "PRESS"
    /\ \E applied \in {trim_apply(event)} :
           /\ strips' = applied.strips
           /\ frame_current' = applied.frame_current
           /\ calls' = calls \o applied.calls
    /\ is_trimming' = FALSE
    /\ handlers' = draw_stop(draw_handler, handlers)
    /\ status' = "FINISHED"
    /\ event_type' = event.type
    /\ UNCHANGED <<is_animation_playing, draw_args, prop_vars,
                   trim_start, channel_start, trim_end, draw_handler, session_handlers>>

\* modal's RET / T branch without its test of event.value.
modal_RET_T_any_value(event) ==
    /\ status \in Running
    /\ event.type \in {"RET", "T"}
    /\ handlers' = draw_stop(draw_handler, handlers)
    /\ status' = "FINISHED"
    /\ event_type' = event.type
    /\ UNCHANGED <<strips, frame_current, is_animation_playing, draw_args,
                   prop_vars, self_vars, calls, session_handlers>>

\* modal, event.type in ['RET', 'T'] and event.value == 'PRESS': draw_stop.
modal_RET_T(event) ==
    /\ status \in Running
    /\ event.type \in {"RET", "T"}
    /\ event.value = "PRESS"
    /\ handlers' = draw_stop(draw_handler, handlers)
    /\ status' = "FINISHED"
    /\ event_type' = event.type
    /\ UNCHANGED <<strips, frame_current, is_animation_playing, draw_args,
                   prop_vars, self_vars, calls, session_handlers>>

\* modal, any other event.
modal_other(event) ==
    /\ status \in Running
    /\ event.type \notin {"ESC", "LEFTMOUSE", "MOUSEMOVE"}
    /\ ~(event.type \in {"RET", "T"} /\ event.value = "PRESS")
    /\ status' = "RUNNING_MODAL"
    /\ event_type' = event.type
    /\ UNCHANGED <<host_vars, prop_vars, self_vars, calls, session_handlers>>

modal(event) ==
    \/ modal_ESC(event)
    \/ modal_LEFTMOUSE(event)
    \/ modal_MOUSEMOVE(event)
    \/ modal_RET_T(event)
    \/ modal_other(event)

\* What invoke sets does not depend on the strips: sessions that follow one
\* another are checked over one timeline.
InitSessions == \E tl \in CoveringTimelines : InitOver(tl)


\* The operator as its shortcuts call it: none of them sets select_linked.
Next ==
    \/ \E event \in InvokeEvents, mode \in SelectModes, gaps \in BOOLEAN :
          invoke(event, mode, FALSE, gaps)
    \/ \E event \in ModalEvents : modal(event)

Spec == Init /\ [][Next]_vars

SpecSessions == InitSessions /\ [][Next]_vars

\* One session, called with any properties, that moves the mouse and then
\* applies: the steps that run the classifier.
NextClassifier ==
    \/ /\ status = "IDLE"
       /\ \E event \in InvokeEvents, mode \in SelectModes, linked \in BOOLEAN, gaps \in BOOLEAN :
             invoke(event, mode, linked, gaps)
    \/ \E event \in MoveEvents : modal_MOUSEMOVE(event)
    \/ \E event \in ButtonEvents : modal_LEFTMOUSE(event)

SpecClassifier == InitClassifier /\ [][NextClassifier]_vars


(* ------------------------------- properties ---------------------------- *)
Ended == status \in {"FINISHED", "CANCELLED"}
Unlocked == {s \in StripIds : ~strips[s].lock}
\* The classifier on the session's state.
ToCut == find_strips_to_cut(trim_start, channel_start, select_mode, select_linked)
ToTrim == find_strips_to_trim(trim_start, trim_end, channel_start,
                              select_mode, select_linked)
UnderMouse == find_strips_mouse(trim_start, channel_start, select_linked)
\* The strips the trim_strips call of the session was given.
TrimmedStrips == UNION {calls[i].args[4] \cup calls[i].args[5] :
                           i \in {j \in DOMAIN calls : calls[j].op = "trim_strips"}}
Selected == {s \in StripIds : strips[s].select}
RangeLo == Min(trim_start, trim_end)
RangeHi == Max(trim_start, trim_end)
Contained(s) == RangeLo <= strips[s].frame_final_start /\ strips[s].frame_final_end <= RangeHi
Within(f, s) == strips[s].frame_final_start <= f /\ f <= strips[s].frame_final_end

\* C1: once modal has returned FINISHED or CANCELLED, no draw handler that the
\* session registered is still registered with the host.
C1_DeregisteredOnExit == Ended => session_handlers \cap handlers = {}

\* C2: a session that applied a trim has called the remove_gaps operator if
\* and only if its remove_gaps option is true, in both selection modes.
C2_RemoveGapsFollowsOption ==
    (Ended /\ Called("trim_strips")) =>
        (Called("power_sequencer.remove_gaps") <=> remove_gaps)

\* C3: a locked strip is in no output of the classifier: not in the trim or
\* delete set of find_strips_to_trim, not in the cut set of find_strips_to_cut,
\* hence neither in the overlay's strips, nor among the strips handed to
\* trim_strips, nor among the strips that cut selected.
C3_LockedNeverClassified ==
    status # "IDLE" =>
        \A s \in StripIds : strips[s].lock =>
            /\ s \notin ToCut
            /\ s \notin ToTrim.to_trim \cup ToTrim.to_delete
            /\ s \notin draw_args.target_strips
            /\ s \notin TrimmedStrips
            /\ s \notin Selected

\* C3 witness: cut was applied with the cut frame inside a locked strip on the
\* channel of the mouse, and trim was applied over a locked strip.
C3_Witness ==
    /\ status = "FINISHED"
    /\ Called("sequencer.cut")
    /\ Selected # {}
    /\ \E s \in StripIds : /\ strips[s].lock
                           /\ strips[s].channel = channel_start
                           /\ Within(trim_start, s)

\* C4: in contextual mode the strips under the mouse at the start position
\* are the result; with none there, find_strips_to_cut and find_strips_to_trim
\* return what they return in cursor mode.
C4_SmartFallsBack ==
    (status # "IDLE" /\ select_mode = "contextual") =>
        IF UnderMouse # {}
        THEN /\ ToCut = UnderMouse
             /\ ToTrim.to_trim \cup ToTrim.to_delete = UnderMouse
        ELSE /\ ToCut = find_strips_to_cut(trim_start, channel_start, "cursor", select_linked)
             /\ ToTrim = find_strips_to_trim(trim_start, trim_end, channel_start,
                                             "cursor", select_linked)


\* C5 as claimed: in every selection mode, an unlocked strip that lies inside
\* the normalized range is in the delete set and not in the trim set.
C5_ContainedIsDeleted ==
    status # "IDLE" =>
        \A s \in Unlocked : Contained(s) =>
            s \in ToTrim.to_delete /\ s \notin ToTrim.to_trim

\* C5 amended: in cursor mode, an unlocked strip that lies inside the
\* normalized range is in the delete set and not in the trim set (and is
\* shown by the overlay and handed to trim_strips as a strip to delete).
C5_ContainedIsDeletedInCursorMode ==
    (status # "IDLE" /\ select_mode = "cursor") =>
        \A s \in Unlocked : Contained(s) =>
            /\ s \in ToTrim.to_delete
            /\ s \notin ToTrim.to_trim
            /\ status \in Running => s \in draw_args.target_strips
            /\ \A i \in DOMAIN calls : calls[i].op = "trim_strips" =>
                  s \in calls[i].args[5] /\ s \notin calls[i].args[4]

\* C5 witness: a trim was applied in cursor mode over a range with an unlocked
\* strip inside that starts after the range does.
C5_Witness ==
    /\ status = "FINISHED"
    /\ select_mode = "cursor"
    /\ Called("trim_strips")
    /\ \E s \in Unlocked : Contained(s) /\ RangeLo < strips[s].frame_final_start

\* C6 as claimed: in every selection mode, an unlocked strip that is not
\* inside the normalized range and holds one of its two ends is in the trim set.
C6_BoundaryIsTrimmed ==
    status # "IDLE" =>
        \A s \in Unlocked :
            (~Contained(s) /\ (Within(RangeLo, s) \/ Within(RangeHi, s))) =>
                s \in ToTrim.to_trim

\* C6 amended: in cursor mode, an unlocked strip that is not inside the
\* normalized range and holds one of its two ends is in the trim set and not
\* in the delete set (and is handed to trim_strips as a strip to trim).
C6_BoundaryIsTrimmedInCursorMode ==
    (status # "IDLE" /\ select_mode = "cursor") =>
        \A s \in Unlocked :
            (~Contained(s) /\ (Within(RangeLo, s) \/ Within(RangeHi, s))) =>
                /\ s \in ToTrim.to_trim
                /\ s \notin ToTrim.to_delete
                /\ status \in Running => s \in draw_args.target_strips
                /\ \A i \in DOMAIN calls : calls[i].op = "trim_strips" =>
                      s \in calls[i].args[4] /\ s \notin calls[i].args[5]

\* C6 witness: a trim was applied in cursor mode over a range whose larger
\* end only lies in an unlocked strip.
C6_Witness ==
    /\ status = "FINISHED"
    /\ select_mode = "cursor"
    /\ Called("trim_strips")
    /\ \E s \in Unlocked : ~Contained(s) /\ Within(RangeHi, s) /\ ~Within(RangeLo, s)

\* C7 as claimed: in every selection mode, find_strips_to_trim returns the
\* same trim and delete sets with trim_start and trim_end exchanged.
C7_OrderIndependent ==
    status # "IDLE" =>
        ToTrim = find_strips_to_trim(trim_end, trim_start, channel_start,
                                     select_mode, select_linked)

\* C7 amended: in cursor mode, find_strips_to_trim returns the same trim and
\* delete sets with trim_start and trim_end exchanged.
C7_OrderIndependentInCursorMode ==
    (status # "IDLE" /\ select_mode = "cursor") =>
        ToTrim = find_strips_to_trim(trim_end, trim_start, channel_start,
                                     select_mode, select_linked)

\* C7 witness: a session in cursor mode dragged backwards (trim_end before
\* trim_start) over a range that classifies a strip to trim and one to delete.
C7_Witness ==
    /\ status \in Running
    /\ select_mode = "cursor"
    /\ trim_end < trim_start
    /\ ToTrim.to_trim # {}
    /\ ToTrim.to_delete # {}

\* C8: in cursor mode find_strips_to_cut returns exactly the unlocked strips
\* whose frame range holds trim_start, whatever the channel of the mouse and
\* whatever trim_end; these are the strips that cut selects.
C8_CursorCutSet ==
    (status # "IDLE" /\ select_mode = "cursor") =>
        /\ ToCut = {s \in Unlocked : Within(trim_start, s)}
        /\ \A ch \in 0..round(MaxMouseY, PxPerChannel) :
              find_strips_to_cut(trim_start, ch, select_mode, select_linked) = ToCut
        /\ Called("sequencer.cut") => Selected = {s \in Unlocked : Within(trim_start, s)}

\* C8 witness: cut was applied in cursor mode with the mouse on a channel
\* without strips under it, and selected a strip while leaving out another.
C8_Witness ==
    /\ status = "FINISHED"
    /\ select_mode = "cursor"
    /\ Called("sequencer.cut")
    /\ UnderMouse = {}
    /\ Selected # {}
    /\ Selected # StripIds


\* The number of cut and trim applications in the log cs.
Applied(cs) == Cardinality(CallsOf(cs, "sequencer.cut"))
                 + Cardinality(CallsOf(cs, "trim_strips"))
\* distance_to_start <= TABLET_TRIM_DISTANCE_THRESHOLD for the event e, with
\* the distance that trim_apply computes.
NearStart(e) ==
    LET start_x == region_to_view(e.mouse_region_x, e.mouse_region_y)[1]
    IN  Abs(e.mouse_region_x * start_x[2] - start_x[1])
            <= TABLET_TRIM_DISTANCE_THRESHOLD * start_x[2]

C9_Step ==
    /\ Applied(calls') <= 1
    /\ Applied(calls') > Applied(calls) => event_type' = "LEFTMOUSE"
    /\ \A e \in ButtonEvents : (status \in Running /\ modal_LEFTMOUSE(e)) =>
          /\ Applied(calls) = 0
          /\ Applied(calls') = 1
          /\ IF trim_start = trim_end \/ (e.is_tablet /\ NearStart(e))
             THEN \E i \in CallsOf(calls', "sequencer.cut") :
                     calls'[i].args[1] = trim_start
             ELSE \E i \in CallsOf(calls', "trim_strips") :
                     calls'[i].args[1] = trim_start /\ calls'[i].args[2] = trim_end

\* C9: a session applies cut or trim at most once and only on LEFTMOUSE, and
\* the LEFTMOUSE event applies exactly one of them: cut at trim_start when
\* trim_start = trim_end, or when the event is a tablet's and its
\* distance_to_start is at most TABLET_TRIM_DISTANCE_THRESHOLD; trim over
\* trim_start, trim_end otherwise.
C9_AppliesOnLeftMouse == [][C9_Step]_vars

\* C9 witness: a tablet's LEFTMOUSE cut although a range had been dragged.
C9_Witness ==
    /\ status = "FINISHED"
    /\ event_type = "LEFTMOUSE"
    /\ trim_start # trim_end
    /\ Called("sequencer.cut")

\* The status the claim gives for an event.
StatusOf(e) ==
    IF e.type = "ESC" THEN "CANCELLED"
    ELSE IF e.type = "LEFTMOUSE" THEN "FINISHED"
    ELSE IF e.type = "MOUSEMOVE" THEN "PASS_THROUGH"
    ELSE IF e.type \in {"RET", "T"} /\ e.value = "PRESS" THEN "FINISHED"
    ELSE "RUNNING_MODAL"

C10_Step ==
    /\ status' \in {"RUNNING_MODAL", "PASS_THROUGH", "FINISHED", "CANCELLED"}
    /\ \A e \in ModalEvents : (status \in Running /\ modal(e)) =>
          /\ status' = StatusOf(e)
          /\ StatusOf(e) = "RUNNING_MODAL" =>
                UNCHANGED <<host_vars, prop_vars, self_vars, calls, session_handlers>>
    /\ status \notin Running => status' = "RUNNING_MODAL"

\* C10: modal returns the status its event decides (ESC: CANCELLED; LEFTMOUSE:
\* FINISHED; MOUSEMOVE: PASS_THROUGH; RET or T pressed: FINISHED; any other
\* event: RUNNING_MODAL, with the session and the host unchanged), and invoke
\* returns RUNNING_MODAL.
C10_StatusByEvent == [][C10_Step]_vars

\* C10 witness: after a drag, a RET that was not a press left the session
\* running.
C10_Witness ==
    /\ status = "RUNNING_MODAL"
    /\ event_type = "RET"
    /\ trim_start # trim_end


C11_Step ==
    /\ status \notin Running => status' # "CANCELLED"
    /\ \A e \in ModalEvents : (status \in Running /\ modal(e)) =>
          /\ status' = "CANCELLED" <=> e.type = "ESC"
          /\ e.type = "ESC" =>
                /\ calls' = calls
                /\ Applied(calls') = 0
                /\ CallsOf(calls', "power_sequencer.remove_gaps") = {}
                /\ strips' = strips

\* C11: modal returns CANCELLED exactly for an ESC event (and invoke never
\* does); the ESC step calls no host operator, so the cancelled session has
\* called neither cut nor trim nor remove_gaps, and it leaves every strip as
\* it was.
C11_CancelOnlyByEsc == [][C11_Step]_vars

\* C11 witness: a session was cancelled after a range had been dragged.
C11_Witness ==
    /\ status = "CANCELLED"
    /\ event_type = "ESC"
    /\ trim_start # trim_end


C12_Step ==
    status \notin Running =>
        \A e \in InvokeEvents :
            \/ /\ trim_start' = get_frame_and_channel(e)[1]
               /\ trim_end' = get_frame_and_channel(e)[1]
               /\ frame_current' = get_frame_and_channel(e)[1]
               /\ channel_start' = get_frame_and_channel(e)[2]
               /\ is_trimming'
               /\ draw_handler' # None
               /\ draw_handler' \notin handlers
               /\ handlers' = handlers \cup {draw_handler'}
               /\ session_handlers' = {draw_handler'}
            \/ ~invoke(e, select_mode', select_linked', remove_gaps')

NewCalls == IF status \in Running
            THEN SubSeq(calls', Len(calls) + 1, Len(calls'))
            ELSE calls'
\* The strips after the host operators in the log cs have run on st.
HostEffect(st, cs) == IF CallsOf(cs, "sequencer.select_all") # {}
                      THEN select_all(st, "DESELECT")
                      ELSE st

\* C13 as stated: every change of a strip in a step is the effect of a host
\* operator called in that step, no strip field is written directly.
C13_OnlyThroughHostOperators == [][strips' = HostEffect(strips, NewCalls)]_vars

C13_Step ==
    /\ DOMAIN strips' = DOMAIN strips
    /\ \A s \in StripIds :
          /\ strips'[s].channel = strips[s].channel
          /\ strips'[s].frame_final_start = strips[s].frame_final_start
          /\ strips'[s].frame_final_end = strips[s].frame_final_end
          /\ strips'[s].lock = strips[s].lock
          /\ strips'[s].select # HostEffect(strips, NewCalls)[s].select =>
                /\ CallsOf(NewCalls, "sequencer.cut") # {}
                /\ s \in ToCut
                /\ strips'[s].select

\* C13, amended: the operator never constructs or destroys a strip and never
\* writes a strip's channel, frame bounds or lock; the one field it writes
\* directly is select, which cut sets to true on the strips of
\* find_strips_to_cut; every other change of a strip is the effect of a called
\* host operator.
C13_OnlySelectWrittenDirectly == [][C13_Step]_vars

\* C13 witness: a cut was applied and left a strip selected.
C13_Witness ==
    /\ status = "FINISHED"
    /\ event_type = "LEFTMOUSE"
    /\ Called("sequencer.cut")
    /\ Selected # {}


C15_OverlayAgreesWithApplied ==
    status \in Running =>
        draw_args.target_strips = IF trim_start = trim_end
                                  THEN ToCut
                                  ELSE ToTrim.to_trim \cup ToTrim.to_delete


C16_Step ==
    \A e \in KeyEvents :
        (status \in Running /\ e.type \in {"RET", "T"} /\ e.value = "PRESS" /\ modal(e)) =>
            /\ status' = "FINISHED"
            /\ calls' = calls
            /\ \A op \in {"sequencer.cut", "trim_strips", "power_sequencer.remove_gaps"} :
                  CallsOf(calls', op) = {}
            /\ strips' = strips
            /\ frame_current' = frame_current

\* C16: a RET or T event of value PRESS ends the session with FINISHED and
\* applies nothing: no cut, no trim and no remove_gaps is called and no strip
\* changes, whatever range was dragged before.
C16_FinishWithoutApplying == [][C16_Step]_vars

\* C16 witness: a session was finished with RET after a range had been dragged.
C16_Witness ==
    /\ status = "FINISHED"
    /\ event_type = "RET"
    /\ trim_start # trim_end
    /\ ~Called("trim_strips")


C17_Step ==
    /\ status' \in Running => trim_end' = frame_current'
    /\ status \in Running =>
          /\ trim_start' = trim_start
          /\ channel_start' = channel_start
          /\ trim_end' # trim_end => event_type' = "MOUSEMOVE" /\ status' = "PASS_THROUGH"
          /\ event_type' = "LEFTMOUSE" =>
                /\ \A i \in CallsOf(NewCalls, "trim_strips") :
                      NewCalls[i].args[1] = trim_start /\ NewCalls[i].args[2] = trim_end
                /\ \A i \in CallsOf(NewCalls, "sequencer.cut") :
                      NewCalls[i].args[1] = trim_start

\* C17: while a session is running trim_end is scene.frame_current in every
\* state between events, trim_start and channel_start keep the values set at
\* invoke, only a MOUSEMOVE changes trim_end, and a LEFTMOUSE applies the
\* range as it was before the event, whatever the event's own position.
C17_EndTracksCursorStartIsAnchor == [][C17_Step]_vars

\* C17 witness: the mouse moved the end of the range away from the anchor.
C17_Witness ==
    /\ status = "PASS_THROUGH"
    /\ event_type = "MOUSEMOVE"
    /\ trim_end = frame_current
    /\ trim_end # trim_start
    /\ draw_args.frame_start = trim_start


C18_Step ==
    (status \in Running /\ event_type' = "LEFTMOUSE") =>
        /\ CallsOf(NewCalls, "sequencer.cut") # {} =>
              /\ frame_current' = frame_current
              /\ \A i \in CallsOf(NewCalls, "sequencer.cut") :
                    NewCalls[i].args[1] = trim_start
        /\ CallsOf(NewCalls, "trim_strips") # {} =>
              frame_current' = IF remove_gaps /\ select_mode = "cursor"
                               THEN Min(trim_start, trim_end)
                               ELSE trim_end

\* C18: cut leaves scene.frame_current as it was before, although the host's
\* cut is called with frame = trim_start; after trim scene.frame_current is
\* min(trim_start, trim_end) when remove_gaps is true and select_mode is
\* 'cursor', and trim_end otherwise.
C18_CursorAfterApply == [][C18_Step]_vars

\* C18 witness: a cut at trim_start was applied with the time cursor on
\* another frame, where it stayed.
C18_Witness ==
    /\ status = "FINISHED"
    /\ event_type = "LEFTMOUSE"
    /\ Called("sequencer.cut")
    /\ frame_current # trim_start
    /\ frame_current = trim_end

====
